---------------------------- MODULE Spec2Model ----------------------------
(***************************************************************************)
(* JoeAPI MCP server (lumberjack-so/joeMCP): the request/response          *)
(* translation helper makeRequest and the tool handlers createServer       *)
(* registers, as a state machine.                                          *)
(*                                                                         *)
(* Text is a sequence of tokens.  A token is a non-empty string; the       *)
(* characters the code or the platform inspects ("/", "?", "&", "=", the   *)
(* JSON punctuation, the double quote, the newline and the single space)   *)
(* are always tokens of their own, every other token is an opaque run of   *)
(* ordinary characters.  The empty string is the empty sequence.           *)
(***************************************************************************)
EXTENDS Integers, Sequences, FiniteSets, TLC

(***************************************************************************)
(* Bounds of the model.                                                    *)
(***************************************************************************)
MaxInv == 1          \* tool invocations the host dispatches (Spec)
MaxEndpointLen == 2  \* tokens of an endpoint handed to makeRequest (SpecMR)
MaxPar == 2          \* tool invocations in flight at once (SpecPar)

(***************************************************************************)
(* JavaScript values.                                                      *)
(***************************************************************************)
Undefined == [t |-> "undefined"]
Null == [t |-> "null"]
Bool(b) == [t |-> "boolean", b |-> b]
Num(n) == [t |-> "number", n |-> n]
Str(s) == [t |-> "string", s |-> s]
Arr(items) == [t |-> "array", items |-> items]
Obj(members) == [t |-> "object", members |-> members]
Member(k, v) == [k |-> k, v |-> v]

\* ToBoolean: what `data && ...`, `page || 1`, `!proposal.isError` test.
Truthy(v) ==
  CASE v.t = "undefined" -> FALSE
    [] v.t = "null" -> FALSE
    [] v.t = "boolean" -> v.b
    [] v.t = "number" -> v.n # 0
    [] v.t = "string" -> v.s # ""
    [] OTHER -> TRUE

\* A variant: a ?? b, which keeps a zero.
OrElseNullish(a, b) == IF a \in {Undefined, Null} THEN b ELSE a

\* a || b
OrElse(a, b) == IF Truthy(a) THEN a ELSE b

\* The text of a string value: the empty string has no token.
StrTok(s) == IF s = "" THEN <<>> ELSE <<s>>

\* String(value) for the scalar values.
JsString(v) ==
  CASE v.t = "undefined" -> <<"undefined">>
    [] v.t = "null" -> <<"null">>
    [] v.t = "boolean" -> IF v.b THEN <<"true">> ELSE <<"false">>
    [] v.t = "number" -> <<ToString(v.n)>>
    [] v.t = "string" -> StrTok(v.s)
    [] OTHER -> <<"[object Object]">>

(***************************************************************************)
(* Text helpers.                                                           *)
(***************************************************************************)
RECURSIVE Flatten(_)
Flatten(ss) == IF ss = <<>> THEN <<>> ELSE Head(ss) \o Flatten(Tail(ss))

RECURSIVE Repeat(_, _)
Repeat(tok, n) == IF n <= 0 THEN <<>> ELSE <<tok>> \o Repeat(tok, n - 1)

StartsWith(s, p) == Len(s) >= Len(p) /\ SubSeq(s, 1, Len(p)) = p

\* s.startsWith('/')
StartsWithSlash(s) == StartsWith(s, <<"/">>)

\* The index of the first occurrence of tok in s, 0 when there is none.
IndexOf(s, tok) ==
  IF \E i \in 1..Len(s) : s[i] = tok
  THEN CHOOSE i \in 1..Len(s) : s[i] = tok /\ \A j \in 1..(i - 1) : s[j] # tok
  ELSE 0

\* Whether p occurs in s as a contiguous run.
Contains(s, p) ==
  \E i \in 0..(Len(s) - Len(p)) : SubSeq(s, i + 1, i + Len(p)) = p

(***************************************************************************)
(* JSON.stringify(value, null, gap): gap 2 pretty-prints, gap 0 is the     *)
(* compact form of JSON.stringify(value).                                  *)
(***************************************************************************)
IndentWidth == 2

Quote(s) == <<"\"">> \o StrTok(s) \o <<"\"">>

\* The line break and indentation before an element at nesting depth d.
Break(gap, d) == IF gap = 0 THEN <<>> ELSE <<"\n">> \o Repeat(" ", gap * d)

\* The separator after a property name: ":" and, when indenting, a space.
Colon(gap) == IF gap = 0 THEN <<":">> ELSE <<":", " ">>

RECURSIVE Stringify(_, _, _)
Stringify(v, gap, d) ==
  CASE v.t = "null" -> <<"null">>
    [] v.t = "boolean" -> IF v.b THEN <<"true">> ELSE <<"false">>
    [] v.t = "number" -> <<ToString(v.n)>>
    [] v.t = "string" -> Quote(v.s)
    [] v.t = "array" ->
         IF v.items = <<>> THEN <<"[", "]">>
         ELSE <<"[">>
              \o Flatten([i \in 1..Len(v.items) |->
                   (IF i = 1 THEN <<>> ELSE <<",">>)
                   \o Break(gap, d + 1)
                   \o Stringify(v.items[i], gap, d + 1)])
              \o Break(gap, d) \o <<"]">>
    [] v.t = "object" ->
         IF v.members = <<>> THEN <<"{", "}">>
         ELSE <<"{">>
              \o Flatten([i \in 1..Len(v.members) |->
                   (IF i = 1 THEN <<>> ELSE <<",">>)
                   \o Break(gap, d + 1)
                   \o Quote(v.members[i].k) \o Colon(gap)
                   \o Stringify(v.members[i].v, gap, d + 1)])
              \o Break(gap, d) \o <<"}">>
    [] OTHER -> <<"undefined">>

\* JSON.stringify(value, null, 2)
Pretty(v) == Stringify(v, IndentWidth, 0)

\* JSON.stringify(value)
Compact(v) == Stringify(v, 0, 0)

(***************************************************************************)
(* JSON.parse(text), as response.json() applies it to the body: a          *)
(* recursive-descent parser over the tokens.  Each parser returns          *)
(* [ok, v, rest].                                                          *)
(***************************************************************************)
JsonInts == -1..10
IsWs(tok) == tok \in {" ", "\n"}
ParseFail == [ok |-> FALSE, v |-> Null, rest |-> <<>>]
Parsed(v, rest) == [ok |-> TRUE, v |-> v, rest |-> rest]

RECURSIVE SkipWs(_)
SkipWs(s) == IF s # <<>> /\ IsWs(Head(s)) THEN SkipWs(Tail(s)) ELSE s

\* A string literal: the quote, at most one token of content, the quote.
ParseString(s) ==
  IF Len(s) >= 2 /\ s[1] = "\"" /\ s[2] = "\"" THEN Parsed("", SubSeq(s, 3, Len(s)))
  ELSE IF Len(s) >= 3 /\ s[1] = "\"" /\ s[2] # "\"" /\ s[3] = "\""
       THEN Parsed(s[2], SubSeq(s, 4, Len(s)))
       ELSE ParseFail

RECURSIVE ParseValue(_)
RECURSIVE ParseItems(_, _)
RECURSIVE ParseMembers(_, _)

\* After "[" or ",": an element, then "," or "]".
ParseItems(s, acc) ==
  LET e == ParseValue(s)
      r == SkipWs(e.rest)
  IN IF ~e.ok \/ r = <<>> THEN ParseFail
     ELSE IF Head(r) = "]" THEN Parsed(Arr(Append(acc, e.v)), Tail(r))
     ELSE IF Head(r) = "," THEN ParseItems(Tail(r), Append(acc, e.v))
     ELSE ParseFail

\* After "{" or ",": a name, ":", a value, then "," or "}".
ParseMembers(s, acc) ==
  LET k == ParseString(SkipWs(s))
      c == SkipWs(k.rest)
  IN IF ~k.ok \/ c = <<>> \/ Head(c) # ":" THEN ParseFail
     ELSE LET e == ParseValue(Tail(c))
              r == SkipWs(e.rest)
          IN IF ~e.ok \/ r = <<>> THEN ParseFail
             ELSE IF Head(r) = "}"
                  THEN Parsed(Obj(Append(acc, Member(k.v, e.v))), Tail(r))
             ELSE IF Head(r) = ","
                  THEN ParseMembers(Tail(r), Append(acc, Member(k.v, e.v)))
             ELSE ParseFail

ParseValue(s0) ==
  LET s == SkipWs(s0)
  IN IF s = <<>> THEN ParseFail
     ELSE LET h == Head(s)
              r == Tail(s)
          IN CASE h = "null" -> Parsed(Null, r)
               [] h = "true" -> Parsed(Bool(TRUE), r)
               [] h = "false" -> Parsed(Bool(FALSE), r)
               [] h = "\"" ->
                    LET q == ParseString(s)
                    IN IF q.ok THEN Parsed(Str(q.v), q.rest) ELSE ParseFail
               [] h = "[" ->
                    IF SkipWs(r) # <<>> /\ Head(SkipWs(r)) = "]"
                    THEN Parsed(Arr(<<>>), Tail(SkipWs(r)))
                    ELSE ParseItems(r, <<>>)
               [] h = "{" ->
                    IF SkipWs(r) # <<>> /\ Head(SkipWs(r)) = "}"
                    THEN Parsed(Obj(<<>>), Tail(SkipWs(r)))
                    ELSE ParseMembers(r, <<>>)
               [] OTHER ->
                    IF \E n \in JsonInts : ToString(n) = h
                    THEN Parsed(Num(CHOOSE n \in JsonInts : ToString(n) = h), r)
                    ELSE ParseFail

\* JSON.parse(text): one value and nothing but white space after it.
JsonParse(text) ==
  LET p == ParseValue(text)
  IN IF p.ok /\ SkipWs(p.rest) = <<>> THEN Parsed(p.v, <<>>) ELSE ParseFail

(***************************************************************************)
(* new URL(href), url.searchParams.append and url.toString().  The scheme  *)
(* and authority of a URL are the tokens before its first "/"; a path is   *)
(* "/"-separated segments, each a run of tokens.                           *)
(***************************************************************************)
Range(s) == {s[i] : i \in 1..Len(s)}

\* The segments of a path that starts with "/": "/a//b/" is a, "", b, "".
RECURSIVE Segments(_, _, _)
Segments(path, cur, acc) ==
  IF path = <<>> THEN Append(acc, cur)
  ELSE IF Head(path) = "/" THEN Segments(Tail(path), <<>>, Append(acc, cur))
  ELSE Segments(Tail(path), Append(cur, Head(path)), acc)

\* The URL parser's path state: a ".." segment removes the segment before
\* it, and leaves an empty last segment when it ends the path.
RECURSIVE RemoveDotSegments(_, _)
RemoveDotSegments(segs, out) ==
  IF segs = <<>> THEN out
  ELSE LET s == Head(segs)
           last == Len(segs) = 1
           popped == IF out = <<>> THEN <<>> ELSE SubSeq(out, 1, Len(out) - 1)
       IN IF s = <<"..">>
          THEN RemoveDotSegments(Tail(segs),
                                 IF last THEN Append(popped, <<>>) ELSE popped)
          ELSE RemoveDotSegments(Tail(segs), Append(out, s))

\* (kept and, in makeRequest, url are bound as values: computed once.)
NormalizePath(path) ==
  LET segs == Tail(Segments(path, <<>>, <<>>))
      Joined(kept) == Flatten([i \in 1..Len(kept) |-> <<"/">> \o kept[i]])
  IN CHOOSE p \in {Joined(kept) : kept \in {RemoveDotSegments(segs, <<>>)}} : TRUE

\* new URL(href): throws TypeError "Invalid URL" when the authority is not a
\* host (here: it is missing, or white space is left inside it).
UrlParse(href) ==
  LET i == IndexOf(href, "/")
      origin == IF i = 0 THEN href ELSE SubSeq(href, 1, i - 1)
      path == IF i = 0 THEN <<"/">> ELSE SubSeq(href, i, Len(href))
  IN IF origin = <<>> \/ " " \in Range(origin)
     THEN [ok |-> FALSE, origin |-> <<>>, pathname |-> <<>>, search |-> <<>>]
     ELSE [ok |-> TRUE, origin |-> origin, pathname |-> NormalizePath(path),
           search |-> <<>>]

\* application/x-www-form-urlencoded: a space is written "+".
FormEncode(text) == [i \in 1..Len(text) |-> IF text[i] = " " THEN "+" ELSE text[i]]

\* url.toString()
UrlToString(u) ==
  u.origin \o u.pathname
  \o (IF u.search = <<>> THEN <<>> ELSE <<"?">>)
  \o Flatten([i \in 1..Len(u.search) |->
       (IF i = 1 THEN <<>> ELSE <<"&">>)
       \o <<u.search[i].k, "=">> \o FormEncode(u.search[i].v)])

(***************************************************************************)
(* makeRequest: the part that runs before the fetch.                       *)
(***************************************************************************)
ApiPrefix == <<"/", "api", "/", "v1">>

Methods == {"GET", "POST", "PUT", "DELETE"}

\* A default parameter: `data: any = null`, `params = {}`.
DefaultArg(v, d) == IF v = Undefined THEN d ELSE v

Req(method, endpoint, data, params) ==
  [method |-> method, endpoint |-> endpoint,
   data |-> DefaultArg(data, Null), params |-> DefaultArg(params, Obj(<<>>))]

\* A bug: the endpoint used as given.
SafeEndpointRaw(endpoint) == endpoint

\* const safeEndpoint = endpoint.startsWith('/') ? endpoint : `/${endpoint}`
SafeEndpoint(endpoint) ==
  IF StartsWithSlash(endpoint) THEN endpoint ELSE <<"/">> \o endpoint

\* `${apiBaseUrl}/api/v1${safeEndpoint}`
Href(apiBaseUrl, endpoint) == apiBaseUrl \o ApiPrefix \o SafeEndpoint(endpoint)

\* A bug: `if (value)`.
ParamKeptTruthy(value) == Truthy(value)

\* if (value !== undefined && value !== null)
ParamKept(value) == value # Undefined /\ value # Null

\* Object.entries(params).forEach(... url.searchParams.append(key, String(value)))
RECURSIVE AppendParams(_, _)
AppendParams(search, members) ==
  IF members = <<>> THEN search
  ELSE LET m == Head(members)
       IN AppendParams(IF ParamKept(m.v)
                       THEN Append(search, [k |-> m.k, v |-> JsString(m.v)])
                       ELSE search,
                       Tail(members))

\* The URL with its query parameters, or the failure of new URL.
BuildUrl(apiBaseUrl, endpoint, params) ==
  LET u == UrlParse(Href(apiBaseUrl, endpoint))
  IN IF ~u.ok THEN u
     ELSE IF Truthy(params)
          THEN [u EXCEPT !.search = AppendParams(u.search, params.members)]
          ELSE u

\* A bug: the method not looked at.
AttachesBodyAnyMethod(method, data) == Truthy(data)

\* if (data && (method === 'POST' || method === 'PUT'))
AttachesBody(method, data) == Truthy(data) /\ method \in {"POST", "PUT"}

\* options: method, the Content-Type header and, when attached, the body.
RequestOptions(method, data) ==
  IF AttachesBody(method, data)
  THEN [method |-> method, headers |-> [ContentType |-> "application/json"],
        body |-> Compact(data)]
  ELSE [method |-> method, headers |-> [ContentType |-> "application/json"]]

(***************************************************************************)
(* makeRequest: the three results.                                         *)
(***************************************************************************)
TextBlock(text) == [type |-> "text", text |-> text]

\* A bug: a redirect status taken for success.
ResponseOkBelow400(status) == status >= 200 /\ status <= 399

\* response.ok: a status of 200 to 299.
ResponseOk(status) == status >= 200 /\ status <= 299

\* A bug: the status left out of the error text.
ApiErrorResultNoStatus(status, responseData) ==
  [content |-> <<TextBlock(<<"API Error: ">> \o Pretty(responseData))>>,
   isError |-> TRUE]

ApiErrorResult(status, responseData) ==
  [content |-> <<TextBlock(<<"API Error ", ToString(status), ": ">>
                           \o Pretty(responseData))>>,
   isError |-> TRUE]

\* A bug: the body printed without indentation.
SuccessResultCompact(responseData) == [content |-> <<TextBlock(Compact(responseData))>>]

SuccessResult(responseData) == [content |-> <<TextBlock(Pretty(responseData))>>]

\* String(error) of an Error object.
ErrorString(error) ==
  IF error.message = "" THEN error.name
  ELSE error.name \o ": " \o error.message

\* A bug: no fallback for an empty message.
ErrorMsgOnly(error) == error.message

\* const errorMsg = error.message || String(error)
ErrorMsg(error) ==
  IF error.message # "" THEN error.message ELSE ErrorString(error)

NetworkErrorResult(error) ==
  [content |-> <<TextBlock(<<"Network Error: ">> \o StrTok(ErrorMsg(error)))>>,
   isError |-> TRUE]

\* What lines 76-95 return for a parsed body.
ResponseResult(status, responseData) ==
  IF ~ResponseOk(status) THEN ApiErrorResult(status, responseData)
  ELSE SuccessResult(responseData)

\* result.isError, read as a condition.
IsError(r) == "isError" \in DOMAIN r /\ r.isError

(***************************************************************************)
(* The state.                                                              *)
(*   config  the configuration createServer was given                      *)
(*   inv     the tool invocations the host dispatched, by slot             *)
(*   calls   the fetches each invocation issued, in order, with what came  *)
(*           back                                                          *)
(***************************************************************************)
VARIABLES config, inv, calls

vars == <<config, inv, calls>>

\* const API_BASE_URL = config.JOEAPI_BASE_URL
API_BASE_URL == config.JOEAPI_BASE_URL

\* A variant: the default limit cut down once a call has failed.
DEFAULT_LIMIT_AfterError ==
  IF \E j \in DOMAIN inv : inv[j].pc = "done" /\ IsError(inv[j].result)
  THEN Num(1)
  ELSE OrElse(config.DEFAULT_PAGE_LIMIT, Num(5))

\* const DEFAULT_LIMIT = config.DEFAULT_PAGE_LIMIT || 5
DEFAULT_LIMIT == OrElse(config.DEFAULT_PAGE_LIMIT, Num(5))

\* const TIMEOUT = config.REQUEST_TIMEOUT || 30000, which nothing reads.
TIMEOUT == OrElse(config.REQUEST_TIMEOUT, Num(30000))

(***************************************************************************)
(* The inputs.                                                             *)
(***************************************************************************)
\* JOEAPI_BASE_URL.  The second passes z.string().url(), which trims the
\* trailing space, and no longer parses once "/api/v1..." follows it.
BaseUrls == {<<"https://joe.example">>, <<"https://joe.example", " ">>}

Configs ==
  [JOEAPI_BASE_URL : BaseUrls, DEFAULT_PAGE_LIMIT : {Undefined, Num(3)}]

\* page, limit: omitted, zero, or a number.
NumArgs == {Undefined, Num(0), Num(7)}

\* proposalId, projectId, actionItemId: z.string().
IdArgs == {Str("p1"), Str("..")}

ClientArgs == Obj(<<Member("Name", Str("Ann")), Member("Phone", Str(""))>>)
ContactArgs == Obj(<<Member("Name", Str("Bob")), Member("City", Str("Pecs"))>>)
ActionItemArgs ==
  Obj(<<Member("Title", Str("Fix")), Member("ActionTypeId", Num(1)),
        Member("CostChange", Obj(<<Member("Amount", Num(-1)),
                                   Member("RequiresClientApproval", Bool(TRUE))>>))>>)

SimpleTools ==
  {"list_clients", "create_client", "list_contacts", "create_contact",
   "list_proposals", "list_estimates", "list_action_items",
   "create_action_item", "add_action_item_comment",
   "assign_action_item_supervisor", "get_project_details",
   "list_project_schedules", "get_financial_summary"}

CompositeTools == {"get_proposal_details", "get_project_finances"}

Tools == SimpleTools \cup CompositeTools

\* The arguments each handler is called with.  The schemas of list_clients
\* and list_contacts ask for numbers of 1 or more, those of the other list
\* tools for any number; the handlers are given a zero all alike.
ArgsOf(tool) ==
  CASE tool = "list_clients" -> [page : NumArgs, limit : NumArgs]
    [] tool \in {"list_contacts", "list_proposals", "list_estimates",
                 "list_project_schedules"} -> [limit : NumArgs]
    [] tool = "list_action_items" -> [projectId : {Str("p1")}, limit : NumArgs]
    [] tool = "create_client" -> {ClientArgs}
    [] tool = "create_contact" -> {ContactArgs}
    [] tool = "create_action_item" -> {ActionItemArgs}
    [] tool = "add_action_item_comment" ->
         [actionItemId : IdArgs, comment : {Str("ok")}]
    [] tool = "assign_action_item_supervisor" ->
         [actionItemId : {Str("p1")}, supervisorId : {Num(0), Num(7)}]
    [] tool = "get_project_details" -> [projectId : IdArgs]
    [] tool = "get_financial_summary" ->
         [groupBy : {Undefined, Str("week")}, startDate : {Str("2024-01-01")},
          endDate : {Str("2024-12-31")}]
    [] tool = "get_proposal_details" ->
         [proposalId : IdArgs, includeLines : {Undefined, Bool(FALSE), Bool(TRUE)}]
    [] tool = "get_project_finances" -> [projectId : {Str("p1")}]

(***************************************************************************)
(* The handlers: the request each passes to makeRequest.                   *)
(***************************************************************************)
\* A bug: the literal default in place of the configured one.
list_clientsLiteral(a) ==
  Req("GET", <<"/", "clients">>, Null,
      Obj(<<Member("page", OrElse(a.page, Num(1))),
            Member("limit", OrElse(a.limit, Num(5)))>>))

list_clients(a) ==
  Req("GET", <<"/", "clients">>, Null,
      Obj(<<Member("page", OrElse(a.page, Num(1))),
            Member("limit", OrElse(a.limit, DEFAULT_LIMIT))>>))

create_client(a) == Req("POST", <<"/", "clients">>, a, Undefined)

list_contacts(a) ==
  Req("GET", <<"/", "contacts">>, Null,
      Obj(<<Member("limit", OrElse(a.limit, DEFAULT_LIMIT))>>))

create_contact(a) == Req("POST", <<"/", "contacts">>, a, Undefined)

list_proposals(a) ==
  Req("GET", <<"/", "proposals">>, Null,
      Obj(<<Member("limit", OrElse(a.limit, DEFAULT_LIMIT))>>))

list_estimates(a) ==
  Req("GET", <<"/", "estimates">>, Null,
      Obj(<<Member("limit", OrElse(a.limit, DEFAULT_LIMIT))>>))

list_action_items(a) ==
  Req("GET", <<"/", "action-items">>, Null,
      Obj(<<Member("projectId", a.projectId),
            Member("limit", OrElse(a.limit, DEFAULT_LIMIT))>>))

create_action_item(a) == Req("POST", <<"/", "action-items">>, a, Undefined)

add_action_item_comment(a) ==
  Req("POST", <<"/", "action-items", "/">> \o JsString(a.actionItemId)
              \o <<"/", "comments">>,
      Obj(<<Member("Comment", a.comment)>>), Undefined)

assign_action_item_supervisor(a) ==
  Req("POST", <<"/", "action-items", "/">> \o JsString(a.actionItemId)
              \o <<"/", "supervisors">>,
      Obj(<<Member("SupervisorId", a.supervisorId)>>), Undefined)

get_project_details(a) ==
  Req("GET", <<"/", "project-details", "/">> \o JsString(a.projectId),
      Undefined, Undefined)

list_project_schedules(a) ==
  Req("GET", <<"/", "project-schedules">>, Null,
      Obj(<<Member("limit", OrElse(a.limit, DEFAULT_LIMIT))>>))

get_financial_summary(a) ==
  Req("GET", <<"/", "transactions", "/", "summary">>, Null,
      Obj(<<Member("groupBy", OrElse(a.groupBy, Str("month"))),
            Member("startDate", a.startDate),
            Member("endDate", a.endDate)>>))

\* get_proposal_details: the proposal, then its lines.
ProposalRequest(a) ==
  Req("GET", <<"/", "proposals", "/">> \o JsString(a.proposalId),
      Undefined, Undefined)

LinesRequest(a) ==
  Req("GET", <<"/", "proposallines">>, Null,
      Obj(<<Member("proposalId", a.proposalId)>>))

\* A bug: the primary result's isError not looked at.
FetchesLinesAlways(a, proposal) == Truthy(a.includeLines)

\* A bug: the flag not looked at.
FetchesLinesOnSuccess(a, proposal) == ~IsError(proposal)

\* if (includeLines && !proposal.isError)
FetchesLines(a, proposal) == Truthy(a.includeLines) /\ ~IsError(proposal)

\* A variant: the error of the lines call returned in place of the merge.
ProposalWithLinesOrError(proposal, lines) ==
  IF IsError(lines) THEN lines
  ELSE [content |-> <<TextBlock(<<"PROPOSAL:", "\n">> \o proposal.content[1].text
                                \o <<"\n", "\n", "LINES:", "\n">>
                                \o lines.content[1].text)>>]

ProposalWithLines(proposal, lines) ==
  [content |-> <<TextBlock(<<"PROPOSAL:", "\n">> \o proposal.content[1].text
                           \o <<"\n", "\n", "LINES:", "\n">>
                           \o lines.content[1].text)>>]

\* get_project_finances: the balances, then the variance.
BalancesRequest(a) ==
  Req("GET", <<"/", "job-balances">>, Null,
      Obj(<<Member("projectId", a.projectId)>>))

\* A bug: the balances endpoint asked twice.
VarianceRequestCopy(a) == BalancesRequest(a)

VarianceRequest(a) ==
  Req("GET", <<"/", "cost-variance">>, Null,
      Obj(<<Member("projectId", a.projectId)>>))

\* A variant: a failed sub-call flagged on the merged result.
ProjectFinancesFlagged(balances, variance) ==
  IF IsError(balances) \/ IsError(variance)
  THEN [content |-> <<TextBlock(<<"JOB BALANCES:", "\n">> \o balances.content[1].text
                                \o <<"\n", "\n", "COST VARIANCE:", "\n">>
                                \o variance.content[1].text)>>,
        isError |-> TRUE]
  ELSE [content |-> <<TextBlock(<<"JOB BALANCES:", "\n">> \o balances.content[1].text
                                \o <<"\n", "\n", "COST VARIANCE:", "\n">>
                                \o variance.content[1].text)>>]

ProjectFinances(balances, variance) ==
  [content |-> <<TextBlock(<<"JOB BALANCES:", "\n">> \o balances.content[1].text
                           \o <<"\n", "\n", "COST VARIANCE:", "\n">>
                           \o variance.content[1].text)>>]

\* The first request of a handler.
FirstRequest(tool, a) ==
  CASE tool = "list_clients" -> list_clients(a)
    [] tool = "create_client" -> create_client(a)
    [] tool = "list_contacts" -> list_contacts(a)
    [] tool = "create_contact" -> create_contact(a)
    [] tool = "list_proposals" -> list_proposals(a)
    [] tool = "list_estimates" -> list_estimates(a)
    [] tool = "list_action_items" -> list_action_items(a)
    [] tool = "create_action_item" -> create_action_item(a)
    [] tool = "add_action_item_comment" -> add_action_item_comment(a)
    [] tool = "assign_action_item_supervisor" -> assign_action_item_supervisor(a)
    [] tool = "get_project_details" -> get_project_details(a)
    [] tool = "list_project_schedules" -> list_project_schedules(a)
    [] tool = "get_financial_summary" -> get_financial_summary(a)
    [] tool = "get_proposal_details" -> ProposalRequest(a)
    [] tool = "get_project_finances" -> BalancesRequest(a)
    [] tool = "makeRequest" -> Req(a.method, a.endpoint, a.data, a.params)

(***************************************************************************)
(* What the upstream and the network can do to a fetch.                    *)
(***************************************************************************)
JsError(name, message) == [name |-> name, message |-> message]
NoError == JsError("", "")

\* new URL(...) threw.
InvalidUrl == JsError("TypeError", "Invalid URL")

\* fetch(...) rejected: with a message, and (makeRequest on its own) with
\* an error that has none.
FetchErrors == {JsError("TypeError", "fetch failed")}
AllFetchErrors == FetchErrors \cup {JsError("Error", "")}
FetchErrorsFor(rec) == IF rec.tool = "makeRequest" THEN AllFetchErrors ELSE FetchErrors

\* response.json() rejected: the body is no JSON, or the stream broke.
UnexpectedToken == JsError("SyntaxError", "Unexpected token")
UnexpectedEnd == JsError("SyntaxError", "Unexpected end of JSON input")
Terminated == JsError("TypeError", "terminated")

SyntaxErrorOf(text) == IF text = <<>> THEN UnexpectedEnd ELSE UnexpectedToken

\* What an upstream answers to a handler's request: a success or an error
\* status, with a JSON body or an HTML page.
Statuses == {200, 404}

BodyTexts == {Compact(Obj(<<Member("id", Str("abc"))>>)), <<"<html>">>}

\* What makeRequest on its own is answered: the statuses around the success
\* range as well, and bodies that are compact or indented JSON, flat or
\* nested, HTML, or empty.
AllStatuses == {200, 299, 300, 404}

JsonBodies ==
  {Obj(<<Member("error", Str("not found"))>>),
   Arr(<<Num(1), Obj(<<Member("tags", Arr(<<>>)), Member("ok", Bool(TRUE))>>)>>)}

AllBodyTexts ==
  {Compact(v) : v \in JsonBodies}
  \cup {<<" ">> \o Pretty(Obj(<<Member("id", Str("abc"))>>)) \o <<"\n">>}
  \cup {<<"<html>">>, <<>>}

\* The answers to the request of invocation rec.
StatusesFor(rec) == IF rec.tool = "makeRequest" THEN AllStatuses ELSE Statuses
BodyTextsFor(rec) == IF rec.tool = "makeRequest" THEN AllBodyTexts ELSE BodyTexts

(***************************************************************************)
(* An invocation slot and a fetch record.                                  *)
(***************************************************************************)
NoResult == [pending |-> TRUE]

\* pc: "idle", "fetch" (awaiting fetch), "json" (awaiting response.json()),
\* "done".  mr counts the makeRequest calls the handler has made, call is
\* the index in calls[i] of the fetch it awaits, first the result of the first
\* makeRequest of a composite handler.
Idle ==
  [tool |-> "none", args |-> Undefined, pc |-> "idle", mr |-> 0, call |-> 0,
   first |-> NoResult, result |-> NoResult]

\* outcome: "pending", "rejected", "response" (status received, body
\* outstanding), "parsed", "unparseable", "aborted" (the body stream broke).
FetchRecord(n, req, u) ==
  [mr |-> n, url |-> UrlToString(u),
   options |-> RequestOptions(req.method, req.data),
   outcome |-> "pending", status |-> 0, body |-> <<>>, error |-> NoError]

Returned(rec, r) == [rec EXCEPT !.pc = "done", !.call = 0, !.result = r]

(***************************************************************************)
(* makeRequest up to its first await, and the handler's code after an      *)
(* awaited makeRequest has produced r.  Both run without suspension, so a  *)
(* makeRequest whose URL does not parse hands its result straight back to  *)
(* the handler, which may call makeRequest again.                          *)
(***************************************************************************)
RECURSIVE makeRequest(_, _, _, _)
RECURSIVE Resume(_, _, _, _)

\* A bug: the fetch issued a second time.
makeRequestRetry(rec, log, i, req) ==
  LET u == BuildUrl(API_BASE_URL, req.endpoint, req.params)
      n == rec.mr + 1
  IN IF ~u.ok
     THEN Resume([rec EXCEPT !.mr = n], log, i, NetworkErrorResult(InvalidUrl))
     ELSE [rec |-> [rec EXCEPT !.mr = n, !.pc = "fetch", !.call = Len(log) + 2],
           log |-> log \o <<FetchRecord(n, req, u), FetchRecord(n, req, u)>>]

makeRequest(rec, log, i, req) ==
  LET n == rec.mr + 1
      Issued(url) ==
        IF ~url.ok
        THEN Resume([rec EXCEPT !.mr = n], log, i, NetworkErrorResult(InvalidUrl))
        ELSE [rec |-> [rec EXCEPT !.mr = n, !.pc = "fetch", !.call = Len(log) + 1],
              log |-> Append(log, FetchRecord(n, req, url))]
  IN CHOOSE out \in {Issued(url) :
                       url \in {BuildUrl(API_BASE_URL, req.endpoint, req.params)}} : TRUE

Resume(rec, log, i, r) ==
  CASE rec.tool = "get_proposal_details" /\ rec.mr = 1 ->
         IF FetchesLines(rec.args, r)
         THEN makeRequest([rec EXCEPT !.first = r], log, i, LinesRequest(rec.args))
         ELSE [rec |-> Returned(rec, r), log |-> log]
    [] rec.tool = "get_proposal_details" /\ rec.mr = 2 ->
         [rec |-> Returned(rec, ProposalWithLines(rec.first, r)), log |-> log]
    [] rec.tool = "get_project_finances" /\ rec.mr = 1 ->
         makeRequest([rec EXCEPT !.first = r], log, i, VarianceRequest(rec.args))
    [] rec.tool = "get_project_finances" /\ rec.mr = 2 ->
         [rec |-> Returned(rec, ProjectFinances(rec.first, r)), log |-> log]
    [] OTHER -> [rec |-> Returned(rec, r), log |-> log]

\* A variant: the result kept in one place for all invocations, so that a
\* returning handler overwrites what the others returned.
StepSharedResult(i, out) ==
  /\ inv' = [j \in DOMAIN inv |->
               IF j = i THEN out.rec
               ELSE IF inv[j].pc = "done" /\ out.rec.pc = "done"
                    THEN [inv[j] EXCEPT !.result = out.rec.result]
                    ELSE inv[j]]
  /\ calls' = [calls EXCEPT ![i] = out.log]
  /\ UNCHANGED config

\* The state after slot i ran to its next await or to its return.
Step(i, out) ==
  /\ inv' = [inv EXCEPT ![i] = out.rec]
  /\ calls' = [calls EXCEPT ![i] = out.log]
  /\ UNCHANGED config

(***************************************************************************)
(* The actions.                                                            *)
(***************************************************************************)
\* A bug: get_project_finances issuing its two calls at once.
InvokeBoth(i) ==
  /\ inv[i].pc = "idle"
  /\ \E tool \in Tools : \E a \in ArgsOf(tool) :
       LET rec == [inv[i] EXCEPT !.tool = tool, !.args = a]
           first == makeRequest(rec, calls[i], i, FirstRequest(tool, a))
       IN IF tool = "get_project_finances" /\ first.rec.pc = "fetch"
          THEN Step(i, makeRequest(first.rec, first.log, i, VarianceRequest(a)))
          ELSE Step(i, first)

\* The host dispatches a tool call to its handler.
Invoke(i) ==
  /\ inv[i].pc = "idle"
  /\ \E tool \in Tools : \E a \in ArgsOf(tool) :
       Step(i, makeRequest([inv[i] EXCEPT !.tool = tool, !.args = a],
                           calls[i], i, FirstRequest(tool, a)))

\* await fetch(...) resolves with a response.
FetchResolve(i) ==
  /\ inv[i].pc = "fetch"
  /\ \E status \in StatusesFor(inv[i]) :
       /\ calls' = [calls EXCEPT ![i][inv[i].call].outcome = "response",
                                 ![i][inv[i].call].status = status]
       /\ inv' = [inv EXCEPT ![i].pc = "json"]
       /\ UNCHANGED config

\* A variant: the core gives a fetch up after TIMEOUT milliseconds, the
\* call still outstanding.
FetchRejectOrAbort(i) ==
  /\ inv[i].pc = "fetch"
  /\ \/ \E error \in FetchErrorsFor(inv[i]) :
          Step(i, Resume(inv[i],
                         [calls[i] EXCEPT ![inv[i].call].outcome = "rejected",
                                          ![inv[i].call].error = error],
                         i, NetworkErrorResult(error)))
     \/ /\ TIMEOUT.n > 0
        /\ Step(i, Resume(inv[i], calls[i], i,
                          NetworkErrorResult(JsError("AbortError", "This operation was aborted"))))

\* await fetch(...) rejects.
FetchReject(i) ==
  /\ inv[i].pc = "fetch"
  /\ \E error \in FetchErrorsFor(inv[i]) :
       Step(i, Resume(inv[i],
                      [calls[i] EXCEPT ![inv[i].call].outcome = "rejected",
                                       ![inv[i].call].error = error],
                      i, NetworkErrorResult(error)))

\* await response.json() resolves: the body is JSON.
JsonResolve(i) ==
  /\ inv[i].pc = "json"
  /\ \E text \in BodyTextsFor(inv[i]) :
       /\ JsonParse(text).ok
       /\ Step(i, Resume(inv[i],
                         [calls[i] EXCEPT ![inv[i].call].outcome = "parsed",
                                          ![inv[i].call].body = text],
                         i, ResponseResult(calls[i][inv[i].call].status,
                                           JsonParse(text).v)))

\* await response.json() rejects: the body is no JSON.
JsonReject(i) ==
  /\ inv[i].pc = "json"
  /\ \E text \in BodyTextsFor(inv[i]) :
       /\ ~JsonParse(text).ok
       /\ Step(i, Resume(inv[i],
                         [calls[i] EXCEPT ![inv[i].call].outcome = "unparseable",
                                          ![inv[i].call].body = text,
                                          ![inv[i].call].error = SyntaxErrorOf(text)],
                         i, NetworkErrorResult(SyntaxErrorOf(text))))

\* await response.json() rejects: the connection broke under the body.
BodyAbort(i) ==
  /\ inv[i].pc = "json"
  /\ Step(i, Resume(inv[i],
                    [calls[i] EXCEPT ![inv[i].call].outcome = "aborted",
                                     ![inv[i].call].error = Terminated],
                    i, NetworkErrorResult(Terminated)))

(***************************************************************************)
(* The server: createServer({config}), then tool calls.                    *)
(***************************************************************************)
Init ==
  /\ config \in Configs
  /\ inv = [i \in 1..MaxInv |-> Idle]
  /\ calls = [i \in 1..MaxInv |-> <<>>]

Next ==
  \/ \E i \in DOMAIN inv : Invoke(i)
  \/ \E i \in DOMAIN inv : FetchResolve(i)
  \/ \E i \in DOMAIN inv : FetchReject(i)
  \/ \E i \in DOMAIN inv : JsonResolve(i)
  \/ \E i \in DOMAIN inv : JsonReject(i)
  \/ \E i \in DOMAIN inv : BodyAbort(i)

Spec == Init /\ [][Next]_vars

(***************************************************************************)
(* makeRequest on its own: one call with arguments of every kind.          *)
(***************************************************************************)
RECURSIVE SeqsUpTo(_, _)
SeqsUpTo(S, n) ==
  IF n = 0 THEN {<<>>}
  ELSE LET shorter == SeqsUpTo(S, n - 1)
       IN shorter \cup {Append(s, x) : s \in shorter, x \in S}

Endpoints == SeqsUpTo({"/", "a", ".."}, MaxEndpointLen)

DataArgs ==
  {Undefined, Null, Num(0), Str(""), Bool(FALSE), Obj(<<Member("Name", Str("Ann"))>>)}

ParamValues == {Undefined, Null, Num(0), Str(" ")}

ParamArgs ==
  {Undefined, Null}
  \cup {Obj(<<Member("page", p), Member("limit", l)>>) :
          p \in ParamValues, l \in ParamValues}

MakeRequestArgs ==
  [method : Methods, endpoint : Endpoints, data : DataArgs, params : ParamArgs]

InitMR ==
  /\ config \in [JOEAPI_BASE_URL : BaseUrls, DEFAULT_PAGE_LIMIT : {Undefined}]
  /\ inv = <<Idle>>
  /\ calls = << <<>> >>

\* A caller awaits makeRequest(apiBaseUrl, method, endpoint, data, params).
Call(i) ==
  /\ inv[i].pc = "idle"
  /\ \E a \in MakeRequestArgs :
       Step(i, makeRequest([inv[i] EXCEPT !.tool = "makeRequest", !.args = a],
                           calls[i], i, FirstRequest("makeRequest", a)))

NextMR ==
  \/ \E i \in DOMAIN inv : Call(i)
  \/ \E i \in DOMAIN inv : FetchResolve(i)
  \/ \E i \in DOMAIN inv : FetchReject(i)
  \/ \E i \in DOMAIN inv : JsonResolve(i)
  \/ \E i \in DOMAIN inv : JsonReject(i)
  \/ \E i \in DOMAIN inv : BodyAbort(i)

SpecMR == InitMR /\ [][NextMR]_vars

(***************************************************************************)
(* The server under a host that dispatches tool calls concurrently: up to  *)
(* MaxPar invocations in flight, their fetches resolving in any order.     *)
(* The upstream answers in JSON, with a success or an error status, or the *)
(* fetch is rejected.                                                      *)
(***************************************************************************)
GetTools ==
  {"list_clients", "list_contacts", "list_proposals", "get_proposal_details",
   "list_estimates", "list_action_items", "get_project_details",
   "list_project_schedules", "get_financial_summary", "get_project_finances"}

\* The tool calls the host dispatches: the two composite tools and a tool
\* of each other way of passing arguments on (a query of defaults, a query
\* with an id, an id in the path, a query of strings), with one choice of
\* arguments each.
ParTools ==
  {"list_clients", "list_action_items", "get_project_details",
   "get_financial_summary", "get_proposal_details", "get_project_finances"}

ParArgsOf(tool) ==
  CASE tool = "list_clients" -> [page : {Undefined}, limit : {Undefined}]
    [] tool = "list_action_items" -> [projectId : {Str("p1")}, limit : {Undefined}]
    [] tool = "get_project_details" -> [projectId : {Str("p1")}]
    [] tool = "get_financial_summary" ->
         [groupBy : {Undefined}, startDate : {Str("2024-01-01")},
          endDate : {Str("2024-12-31")}]
    [] tool = "get_proposal_details" ->
         [proposalId : {Str("p1")}, includeLines : {Bool(TRUE)}]
    [] tool = "get_project_finances" -> [projectId : {Str("p1")}]

InitPar ==
  /\ config \in [JOEAPI_BASE_URL : BaseUrls, DEFAULT_PAGE_LIMIT : {Undefined}]
  /\ inv = [i \in 1..MaxPar |-> Idle]
  /\ calls = [i \in 1..MaxPar |-> <<>>]

\* The host dispatches a tool call while others may be in flight.
Dispatch(i) ==
  /\ inv[i].pc = "idle"
  /\ \E tool \in ParTools : \E a \in ParArgsOf(tool) :
       Step(i, makeRequest([inv[i] EXCEPT !.tool = tool, !.args = a],
                           calls[i], i, FirstRequest(tool, a)))

NextPar ==
  \/ \E i \in DOMAIN inv : Dispatch(i)
  \/ \E i \in DOMAIN inv : FetchResolve(i)
  \/ \E i \in DOMAIN inv : FetchReject(i)
  \/ \E i \in DOMAIN inv : JsonResolve(i)

SpecPar == InitPar /\ [][NextPar]_vars

(***************************************************************************)
(* One invocation from its dispatch to its return, with REQUEST_TIMEOUT    *)
(* set or not, under an upstream that lets no call hang: every fetch is    *)
(* resolved or rejected in the end, and so is every read of a body.        *)
(***************************************************************************)
InitLive ==
  /\ config \in [JOEAPI_BASE_URL : BaseUrls, DEFAULT_PAGE_LIMIT : {Undefined},
                 REQUEST_TIMEOUT : {Undefined, Num(1000)}]
  /\ inv = <<Idle>>
  /\ calls = << <<>> >>

\* The call invocation i awaits settles, one way or another.
Settles(i) ==
  \/ FetchResolve(i)
  \/ BodyAbort(i)
  \/ FetchReject(i)
  \/ JsonResolve(i)
  \/ JsonReject(i)

SpecLive ==
  InitLive /\ [][Next]_vars /\ WF_vars(\E i \in DOMAIN inv : Settles(i))

(***************************************************************************)
(* Properties.                                                             *)
(***************************************************************************)
\* The fetches invocation i issued, as indices of calls[i].
CallsBy(i) == DOMAIN calls[i]

\* A response arrived and its status is outside 200..299.
ErrorStatus(c) == c.status # 0 /\ ~(c.status >= 200 /\ c.status <= 299)

\* The body of c as response.json() delivers it.
BodyOf(c) == JsonParse(c.body).v

IsApiErrorOf(r, c) ==
  /\ IsError(r)
  /\ Len(r.content) = 1
  /\ r.content[1].type = "text"
  /\ r.content[1].text
       = <<"API Error ", ToString(c.status), ": ">> \o Pretty(BodyOf(c))

IsNetworkErrorOf(r, error) ==
  r = [content |-> <<[type |-> "text",
                      text |-> <<"Network Error: ">>
                               \o (IF error.message = "" THEN <<error.name>>
                                   ELSE <<error.message>>)]>>,
       isError |-> TRUE]

\* C1 as stated: every response with a status outside the success range
\* makes makeRequest return an isError result whose text is
\* "API Error {status}: " and the pretty-printed body.
C1_EveryErrorStatus ==
  \A i \in DOMAIN inv : \A k \in CallsBy(i) :
    (inv[i].tool = "makeRequest" /\ inv[i].pc = "done" /\ ErrorStatus(calls[i][k]))
      => /\ IsError(inv[i].result)
         /\ StartsWith(inv[i].result.content[1].text,
                       <<"API Error ", ToString(calls[i][k].status), ": ">>)

\* C1, amended: every response with a status outside the success range whose
\* body is read and parses as JSON makes makeRequest return (not throw) an
\* isError result whose single text block is "API Error {status}: " followed
\* by the pretty-printed body.
C1_ApiErrorResult ==
  \A i \in DOMAIN inv : \A k \in CallsBy(i) :
    (inv[i].tool = "makeRequest" /\ inv[i].pc = "done"
     /\ ErrorStatus(calls[i][k]) /\ calls[i][k].outcome = "parsed")
      => IsApiErrorOf(inv[i].result, calls[i][k])

\* A 404 with the body {"error":"not found"} was turned into a result.
C1_Witness ==
  \E i \in DOMAIN inv : \E k \in CallsBy(i) :
    /\ inv[i].tool = "makeRequest" /\ inv[i].pc = "done"
    /\ calls[i][k].status = 404 /\ calls[i][k].outcome = "parsed"
    /\ BodyOf(calls[i][k]) = Obj(<<Member("error", Str("not found"))>>)
    /\ IsError(inv[i].result)

\* C2: when new URL throws, fetch rejects or response.json() rejects,
\* makeRequest returns an isError result whose single text block is
\* "Network Error: " and the exception's message, or the exception's string
\* form when the message is empty.
C2_NetworkErrorResult ==
  \A i \in DOMAIN inv :
    (inv[i].tool = "makeRequest" /\ inv[i].pc = "done")
      => /\ CallsBy(i) = {} => IsNetworkErrorOf(inv[i].result, InvalidUrl)
         /\ \A k \in CallsBy(i) :
              calls[i][k].outcome \in {"rejected", "unparseable", "aborted"}
                => IsNetworkErrorOf(inv[i].result, calls[i][k].error)

\* A success status whose body is no JSON was turned into a result.
C2_Witness ==
  \E i \in DOMAIN inv : \E k \in CallsBy(i) :
    /\ inv[i].tool = "makeRequest" /\ inv[i].pc = "done"
    /\ calls[i][k].status = 200 /\ calls[i][k].outcome = "unparseable"
    /\ calls[i][k].body = <<"<html>">>
    /\ IsError(inv[i].result)

\* C3: a success status with a JSON body gives a result without isError
\* whose single text block is the body pretty-printed with 2 spaces, and
\* parsing that text gives the body again.
C3_SuccessRoundTrip ==
  \A i \in DOMAIN inv : \A k \in CallsBy(i) :
    (inv[i].tool = "makeRequest" /\ inv[i].pc = "done"
     /\ calls[i][k].outcome = "parsed" /\ ~ErrorStatus(calls[i][k]))
      => /\ DOMAIN inv[i].result = {"content"}
         /\ Len(inv[i].result.content) = 1
         /\ inv[i].result.content[1].type = "text"
         /\ inv[i].result.content[1].text = Stringify(BodyOf(calls[i][k]), 2, 0)
         /\ JsonParse(inv[i].result.content[1].text).ok
         /\ JsonParse(inv[i].result.content[1].text).v = BodyOf(calls[i][k])

\* A 299 with a nested body was turned into an indented text.
C3_Witness ==
  \E i \in DOMAIN inv : \E k \in CallsBy(i) :
    /\ inv[i].tool = "makeRequest" /\ inv[i].pc = "done"
    /\ calls[i][k].status = 299 /\ calls[i][k].outcome = "parsed"
    /\ BodyOf(calls[i][k]).t = "array"
    /\ Contains(inv[i].result.content[1].text, <<"\n", " ", " ", " ", " ">>)

(***************************************************************************)
(* Properties of the handlers.                                             *)
(***************************************************************************)
\* The fetches invocation i issued, in the order it issued them.
CallSeq(i) == calls[i]

\* Whether new URL accepts a URL under the configured base.
BaseParses == UrlParse(API_BASE_URL \o <<"/">>).ok

\* The result makeRequest makes of a settled fetch.
MadeOf(c) ==
  IF c.outcome = "parsed" THEN ResponseResult(c.status, BodyOf(c))
  ELSE NetworkErrorResult(c.error)

\* The result of the n-th makeRequest of an invocation that issued cs.
NthResult(cs, n) ==
  IF Len(cs) < n THEN NetworkErrorResult(InvalidUrl) ELSE MadeOf(cs[n])

\* A makeRequest of invocation i ended in a failure of any kind.
Failed(i) ==
  \/ inv[i].mr > Len(CallSeq(i))
  \/ \E k \in CallsBy(i) :
       \/ calls[i][k].outcome \in {"rejected", "unparseable", "aborted"}
       \/ calls[i][k].outcome = "parsed" /\ ErrorStatus(calls[i][k])

NormalShaped(r) ==
  /\ "content" \in DOMAIN r
  /\ Len(r.content) = 1
  /\ r.content[1].type = "text"
  /\ r.content[1].text # <<>>

\* C4 as stated: every invocation returns a normal-shaped ToolResult, and
\* every failure carries isError = true.
C4_EveryFailureFlagged ==
  \A i \in DOMAIN inv :
    inv[i].pc = "done"
      => /\ NormalShaped(inv[i].result)
         /\ Failed(i) => IsError(inv[i].result)

IsGet(c, url) == c.options.method = "GET" /\ c.url = url

ProposalUrl(a) ==
  UrlToString(UrlParse(API_BASE_URL
                       \o <<"/", "api", "/", "v1", "/", "proposals", "/">>
                       \o StrTok(a.proposalId.s)))

LinesUrl(a) ==
  API_BASE_URL \o <<"/", "api", "/", "v1", "/", "proposallines", "?",
                    "proposalId", "=">> \o StrTok(a.proposalId.s)

MergedProposal(cs) ==
  [content |-> <<[type |-> "text",
                  text |-> <<"PROPOSAL:", "\n">> \o MadeOf(cs[1]).content[1].text
                           \o <<"\n", "\n", "LINES:", "\n">>
                           \o MadeOf(cs[2]).content[1].text]>>]

\* What C5 says of a lines request after a non-error proposal.
C5_WithLines(i) ==
  LET a == inv[i].args
      cs == CallSeq(i)
  IN (Truthy(a.includeLines) /\ ~IsError(NthResult(cs, 1)))
       => /\ Len(cs) = 2
          /\ IsGet(cs[1], ProposalUrl(a))
          /\ IsGet(cs[2], LinesUrl(a))
          /\ inv[i].result = MergedProposal(cs)

\* C5 as stated: without includeLines exactly one outbound call and the
\* primary result unchanged; with includeLines and a non-error primary
\* result exactly two calls and the merged text.
C5_ExactlyOneCall ==
  \A i \in DOMAIN inv :
    (inv[i].tool = "get_proposal_details" /\ inv[i].pc = "done")
      => /\ ~Truthy(inv[i].args.includeLines)
              => /\ Len(CallSeq(i)) = 1
                 /\ inv[i].result = NthResult(CallSeq(i), 1)
         /\ C5_WithLines(i)

\* C5, amended: get_proposal_details with includeLines false or omitted
\* calls makeRequest once, which is one outbound call (GET /proposals/{id}),
\* or none when the request URL cannot be constructed, and returns the
\* primary result unchanged; with includeLines = true and a non-error
\* primary result it issues exactly two calls (GET /proposals/{id}, then GET
\* /proposallines?proposalId={id}) and returns one text block with the
\* "PROPOSAL:" section followed by the "LINES:" section.
C5_ProposalDetails ==
  \A i \in DOMAIN inv :
    (inv[i].tool = "get_proposal_details" /\ inv[i].pc = "done")
      => /\ ~Truthy(inv[i].args.includeLines)
              => /\ inv[i].mr = 1
                 /\ Len(CallSeq(i)) = (IF BaseParses THEN 1 ELSE 0)
                 /\ \A n \in 1..Len(CallSeq(i)) :
                      IsGet(CallSeq(i)[n], ProposalUrl(inv[i].args))
                 /\ inv[i].result = NthResult(CallSeq(i), 1)
         /\ C5_WithLines(i)

\* A proposal and its lines were fetched and merged.
C5_Witness ==
  \E i \in DOMAIN inv :
    /\ inv[i].tool = "get_proposal_details" /\ inv[i].pc = "done"
    /\ inv[i].args.includeLines = Bool(TRUE)
    /\ Len(CallSeq(i)) = 2
    /\ StartsWith(inv[i].result.content[1].text, <<"PROPOSAL:", "\n", "{">>)
    /\ Contains(inv[i].result.content[1].text, <<"\n", "\n", "LINES:", "\n">>)

FinancesUrl(a, resource) ==
  API_BASE_URL \o <<"/", "api", "/", "v1", "/", resource, "?", "projectId", "=">>
  \o StrTok(a.projectId.s)

\* The text has the two sections, in order, whatever is under them.
HasBothSections(text, cs) ==
  text = <<"JOB BALANCES:", "\n">> \o NthResult(cs, 1).content[1].text
         \o <<"\n", "\n", "COST VARIANCE:", "\n">>
         \o NthResult(cs, 2).content[1].text

\* C6 as stated: get_project_finances always issues exactly two outbound
\* calls, whatever their outcome, and its text has both sections.
C6_ExactlyTwoCalls ==
  \A i \in DOMAIN inv :
    (inv[i].tool = "get_project_finances" /\ inv[i].pc = "done")
      => /\ Len(CallSeq(i)) = 2
         /\ HasBothSections(inv[i].result.content[1].text, CallSeq(i))

\* C6, amended: get_project_finances always calls makeRequest exactly twice
\* (GET /job-balances, then GET /cost-variance, each with projectId as query
\* parameter), whatever the outcome of either call: that is two outbound
\* calls, or none when the request URL cannot be constructed; its result
\* text always contains the "JOB BALANCES:" and the "COST VARIANCE:" section.
C6_ProjectFinances ==
  \A i \in DOMAIN inv :
    (inv[i].tool = "get_project_finances" /\ inv[i].pc = "done")
      => /\ inv[i].mr = 2
         /\ Len(CallSeq(i)) = (IF BaseParses THEN 2 ELSE 0)
         /\ BaseParses
              => /\ IsGet(CallSeq(i)[1], FinancesUrl(inv[i].args, "job-balances"))
                 /\ IsGet(CallSeq(i)[2], FinancesUrl(inv[i].args, "cost-variance"))
         /\ Len(inv[i].result.content) = 1
         /\ HasBothSections(inv[i].result.content[1].text, CallSeq(i))

\* Both fetches were made although the first one was rejected.
C6_Witness ==
  \E i \in DOMAIN inv :
    /\ inv[i].tool = "get_project_finances" /\ inv[i].pc = "done"
    /\ Len(CallSeq(i)) = 2
    /\ CallSeq(i)[1].outcome = "rejected"
    /\ CallSeq(i)[2].outcome = "parsed" /\ CallSeq(i)[2].status = 200

(***************************************************************************)
(* Properties of the request makeRequest builds.                           *)
(***************************************************************************)
\* C7 as stated: every makeRequest performs exactly one outbound call.
C7_ExactlyOneFetch ==
  \A i \in DOMAIN inv :
    (inv[i].tool = "makeRequest" /\ inv[i].pc # "idle")
      => Cardinality(CallsBy(i)) = 1

\* C7, amended: every makeRequest performs at most one outbound call:
\* exactly one when its URL can be constructed, none when new URL throws,
\* and never a second one, whatever comes back.
C7_AtMostOneFetch ==
  \A i \in DOMAIN inv :
    (inv[i].tool = "makeRequest" /\ inv[i].pc # "idle")
      => /\ inv[i].mr = 1
         /\ Cardinality(CallsBy(i)) = (IF BaseParses THEN 1 ELSE 0)

\* An error status came back and no second fetch followed.
C7_Witness ==
  \E i \in DOMAIN inv :
    /\ inv[i].tool = "makeRequest" /\ inv[i].pc = "done"
    /\ Cardinality(CallsBy(i)) = 1
    /\ \E k \in CallsBy(i) : calls[i][k].status = 404 /\ calls[i][k].outcome = "parsed"

\* The URL up to its query, and its query.
PathOf(url) ==
  IF IndexOf(url, "?") = 0 THEN url ELSE SubSeq(url, 1, IndexOf(url, "?") - 1)

QueryOf(url) ==
  IF IndexOf(url, "?") = 0 THEN <<>>
  ELSE SubSeq(url, IndexOf(url, "?") + 1, Len(url))

\* The endpoint with a "/" put before it unless it has one.
Slashed(e) == IF e # <<>> /\ e[1] = "/" THEN e ELSE <<"/">> \o e

DoubleSlashed(p) == Len(p) >= 2 /\ p[1] = "/" /\ p[2] = "/"

RECURSIVE Split(_, _, _, _)
Split(s, sep, cur, acc) ==
  IF s = <<>> THEN Append(acc, cur)
  ELSE IF Head(s) = sep THEN Split(Tail(s), sep, <<>>, Append(acc, cur))
  ELSE Split(Tail(s), sep, Append(cur, Head(s)), acc)

\* The name=value pairs of a query, the "+" of a value read as a space.
QueryPairs(query) ==
  IF query = <<>> THEN <<>>
  ELSE LET parts == Split(query, "&", <<>>, <<>>)
       IN [n \in 1..Len(parts) |->
             [k |-> Head(parts[n]),
              v |-> [j \in 1..(Len(parts[n]) - 2) |->
                       IF parts[n][j + 2] = "+" THEN " " ELSE parts[n][j + 2]]]]

\* The text of a scalar.
Coerced(v) ==
  CASE v.t = "number" -> <<ToString(v.n)>>
    [] v.t = "boolean" -> IF v.b THEN <<"true">> ELSE <<"false">>
    [] v.t = "string" -> IF v.s = "" THEN <<>> ELSE <<v.s>>

\* The members of the params argument: none when it is null or omitted.
MembersOf(params) == IF params.t = "object" THEN params.members ELSE <<>>

\* C9: a key whose value is undefined or null is not in the query string,
\* and every key with a defined scalar value is in it exactly once, with
\* the text of its value.
C9_QueryParameters ==
  \A i \in DOMAIN inv : \A k \in CallsBy(i) :
    inv[i].tool = "makeRequest"
      => LET ms == MembersOf(inv[i].args.params)
             pairs == QueryPairs(QueryOf(calls[i][k].url))
         IN \A n \in 1..Len(ms) :
              LET at == {j \in 1..Len(pairs) : pairs[j].k = ms[n].k}
              IN IF ms[n].v \in {Undefined, Null}
                 THEN at = {} /\ ms[n].k \notin Range(QueryOf(calls[i][k].url))
                 ELSE /\ Cardinality(at) = 1
                      /\ \A j \in at : pairs[j].v = Coerced(ms[n].v)

\* page was null and limit was 0: the query is limit=0.
C9_Witness ==
  \E i \in DOMAIN inv : \E k \in CallsBy(i) :
    /\ inv[i].tool = "makeRequest"
    /\ inv[i].args.params = Obj(<<Member("page", Null), Member("limit", Num(0))>>)
    /\ QueryOf(calls[i][k].url) = <<"limit", "=", "0">>

\* The values `data &&` takes for no body.
FalsyData == {Undefined, Null, Num(0), Str(""), Bool(FALSE)}

NoBodyOnGetDelete(i, k) ==
  inv[i].args.method \in {"GET", "DELETE"} => "body" \notin DOMAIN calls[i][k].options

CarriesJsonOf(options, data) ==
  /\ "body" \in DOMAIN options
  /\ JsonParse(options.body).ok
  /\ JsonParse(options.body).v = data

\* C10 as stated: no body with GET or DELETE; with POST or PUT and a body
\* value supplied, the body is the JSON serialization of that value.
C10_SuppliedBodyAttached ==
  \A i \in DOMAIN inv : \A k \in CallsBy(i) :
    inv[i].tool = "makeRequest"
      => /\ NoBodyOnGetDelete(i, k)
         /\ (inv[i].args.method \in {"POST", "PUT"}
             /\ inv[i].args.data \notin {Undefined, Null})
              => CarriesJsonOf(calls[i][k].options, inv[i].args.data)

\* C10, amended: no body is attached when the method is GET or DELETE, even
\* if a body argument is passed; when the method is POST or PUT and a truthy
\* body value was supplied, the body attached is the JSON serialization of
\* exactly that value; a falsy body value (0, "", false, as null and
\* undefined) is not attached.
C10_TruthyBodyAttached ==
  \A i \in DOMAIN inv : \A k \in CallsBy(i) :
    inv[i].tool = "makeRequest"
      => /\ NoBodyOnGetDelete(i, k)
         /\ inv[i].args.method \in {"POST", "PUT"}
              => IF inv[i].args.data \in FalsyData
                 THEN "body" \notin DOMAIN calls[i][k].options
                 ELSE CarriesJsonOf(calls[i][k].options, inv[i].args.data)

\* A PUT carried its object as JSON.
C10_Witness ==
  \E i \in DOMAIN inv : \E k \in CallsBy(i) :
    /\ inv[i].tool = "makeRequest"
    /\ inv[i].args.method = "PUT"
    /\ inv[i].args.data = Obj(<<Member("Name", Str("Ann"))>>)
    /\ calls[i][k].options.body = <<"{", "\"", "Name", "\"", ":", "\"", "Ann", "\"", "}">>

(***************************************************************************)
(* Properties of the defaults the handlers substitute.                     *)
(***************************************************************************)
\* The default page limit as configured: DEFAULT_PAGE_LIMIT when set, else 5.
ConfiguredDefault ==
  IF config.DEFAULT_PAGE_LIMIT = Undefined THEN 5 ELSE config.DEFAULT_PAGE_LIMIT.n

ClientsUrl == API_BASE_URL \o <<"/", "api", "/", "v1", "/", "clients">>

\* C11: list_clients called with neither page nor limit requests
\* GET /clients with the query page=1&limit={d}, where d is
\* DEFAULT_PAGE_LIMIT when the configuration sets it and 5 otherwise.
C11_DefaultSubstitution ==
  \A i \in DOMAIN inv :
    (inv[i].tool = "list_clients"
     /\ inv[i].args.page = Undefined /\ inv[i].args.limit = Undefined)
      => /\ BaseParses => Len(calls[i]) = 1
         /\ \A k \in CallsBy(i) :
              /\ calls[i][k].options.method = "GET"
              /\ PathOf(calls[i][k].url) = ClientsUrl
              /\ QueryOf(calls[i][k].url)
                   = <<"page", "=", "1", "&", "limit", "=",
                       ToString(ConfiguredDefault)>>

\* list_clients({}) under DEFAULT_PAGE_LIMIT = 3 asked for limit=3.
C11_Witness ==
  \E i \in DOMAIN inv : \E k \in CallsBy(i) :
    /\ inv[i].tool = "list_clients"
    /\ inv[i].args = [page |-> Undefined, limit |-> Undefined]
    /\ config.DEFAULT_PAGE_LIMIT = Num(3)
    /\ QueryOf(calls[i][k].url) = <<"page", "=", "1", "&", "limit", "=", "3">>

(***************************************************************************)
(* Properties of the shape of every result.                                *)
(***************************************************************************)
\* content is one text block with a text.
OneTextBlock(r) ==
  /\ DOMAIN r \in {{"content"}, {"content", "isError"}}
  /\ Len(r.content) = 1
  /\ DOMAIN r.content[1] = {"type", "text"}
  /\ r.content[1].type = "text"
  /\ r.content[1].text # <<>>

\* The text opens with "Network Error", or with "API Error {status}" for
\* the error status one of the calls cs was answered with.
NamesFailureKind(r, cs) ==
  \/ StartsWith(r.content[1].text, <<"Network Error: ">>)
  \/ \E k \in DOMAIN cs :
       /\ ErrorStatus(cs[k])
       /\ StartsWith(r.content[1].text,
                     <<"API Error ", ToString(cs[k].status), ": ">>)

\* The results invocation i holds: what its first makeRequest returned to a
\* composite handler, and what the handler returned.
ResultsOf(i) ==
  (IF inv[i].first = NoResult THEN {} ELSE {inv[i].first})
  \cup (IF inv[i].pc = "done" THEN {inv[i].result} ELSE {})

\* C12: every result makeRequest or a handler returns has exactly one text
\* block, never an empty content, and when isError is true its text starts
\* with the failure kind, "API Error {status}" or "Network Error".
C12_ResultShape ==
  \A i \in DOMAIN inv : \A r \in ResultsOf(i) :
    /\ OneTextBlock(r)
    /\ IsError(r) => NamesFailureKind(r, calls[i])

\* A 404 came back to a handler as "API Error 404: ...".
C12_Witness ==
  \E i \in DOMAIN inv :
    /\ inv[i].pc = "done" /\ inv[i].tool = "list_estimates"
    /\ IsError(inv[i].result)
    /\ StartsWith(inv[i].result.content[1].text, <<"API Error ", "404", ": ">>)

(***************************************************************************)
(* Properties of the order of the calls of a composite handler.            *)
(***************************************************************************)
\* The fetch is issued and its makeRequest has not yet made a result of it.
InFlight(c) == c.outcome \in {"pending", "response"}

\* C14: in get_proposal_details and get_project_finances the second call is
\* issued only after the first has resolved to its result: an invocation
\* never has two calls in flight, and while its second call exists the
\* first is settled and its result is in the handler's hands.
C14_StrictlySequential ==
  \A i \in DOMAIN inv :
    inv[i].tool \in CompositeTools
      => /\ Cardinality({k \in CallsBy(i) : InFlight(calls[i][k])}) <= 1
         /\ \A k \in CallsBy(i) :
              k > 1 => /\ ~InFlight(calls[i][k - 1])
                       /\ inv[i].first = MadeOf(calls[i][k - 1])

\* The variance call is in flight and the balances call is settled.
C14_Witness ==
  \E i \in DOMAIN inv :
    /\ inv[i].tool = "get_project_finances"
    /\ Len(calls[i]) = 2
    /\ calls[i][1].outcome = "parsed"
    /\ InFlight(calls[i][2])

(***************************************************************************)
(* Properties of the composite handlers when a call fails.                 *)
(***************************************************************************)
\* get_proposal_details({includeLines: true}) returned after its primary
\* makeRequest gave an error result.
C15_PrimaryFailed(i) ==
  /\ inv[i].tool = "get_proposal_details" /\ inv[i].pc = "done"
  /\ inv[i].args.includeLines = Bool(TRUE)
  /\ IsError(NthResult(calls[i], 1))

\* C15 as stated: after an error result of the primary fetch exactly one
\* outbound call was made, the lines call never, and the primary error
\* result is returned unchanged with isError = true.
C15_ExactlyOneOnError ==
  \A i \in DOMAIN inv :
    C15_PrimaryFailed(i)
      => /\ Len(calls[i]) = 1
         /\ inv[i].result = NthResult(calls[i], 1)
         /\ IsError(inv[i].result)

\* C15, amended: get_proposal_details with includeLines = true whose primary
\* makeRequest returns an error result never issues the /proposallines
\* call: makeRequest is called once, which is one outbound call, or none
\* when the request URL cannot be constructed, and the primary error result
\* is returned unchanged, with isError = true.
C15_NoLinesAfterError ==
  \A i \in DOMAIN inv :
    C15_PrimaryFailed(i)
      => /\ inv[i].mr = 1
         /\ Len(calls[i]) = (IF BaseParses THEN 1 ELSE 0)
         /\ \A k \in CallsBy(i) : IsGet(calls[i][k], ProposalUrl(inv[i].args))
         /\ inv[i].result = NthResult(calls[i], 1)
         /\ IsError(inv[i].result)

\* The proposal came back 404 and the handler returned that error.
C15_Witness ==
  \E i \in DOMAIN inv :
    /\ C15_PrimaryFailed(i)
    /\ Len(calls[i]) = 1
    /\ calls[i][1].status = 404 /\ calls[i][1].outcome = "parsed"
    /\ StartsWith(inv[i].result.content[1].text, <<"API Error ", "404", ": ">>)

\* C16: the result of get_project_finances never carries isError: when one
\* or both sub-calls fail, the error text of each stands under its header
\* ("JOB BALANCES:", "COST VARIANCE:") and the result has no error flag.
C16_FinancesNeverFlagged ==
  \A i \in DOMAIN inv :
    (inv[i].tool = "get_project_finances" /\ inv[i].pc = "done")
      => /\ DOMAIN inv[i].result = {"content"}
         /\ inv[i].result.content[1].text
              = <<"JOB BALANCES:", "\n">> \o NthResult(calls[i], 1).content[1].text
                \o <<"\n", "\n", "COST VARIANCE:", "\n">>
                \o NthResult(calls[i], 2).content[1].text

\* Both sub-calls failed, one with a 404 and one rejected, and the result
\* has the two error texts and no flag.
C16_Witness ==
  \E i \in DOMAIN inv :
    /\ inv[i].tool = "get_project_finances" /\ inv[i].pc = "done"
    /\ Len(calls[i]) = 2
    /\ calls[i][1].status = 404 /\ calls[i][1].outcome = "parsed"
    /\ calls[i][2].outcome = "rejected"
    /\ StartsWith(inv[i].result.content[1].text,
                  <<"JOB BALANCES:", "\n", "API Error ", "404", ": ">>)
    /\ Contains(inv[i].result.content[1].text,
                <<"COST VARIANCE:", "\n", "Network Error: ", "fetch failed">>)
    /\ ~IsError(inv[i].result)

\* get_proposal_details({includeLines: true}) returned after a non-error
\* primary result and an error result of the lines call.
C19_LinesFailed(i) ==
  /\ inv[i].tool = "get_proposal_details" /\ inv[i].pc = "done"
  /\ inv[i].args.includeLines = Bool(TRUE)
  /\ ~IsError(NthResult(calls[i], 1))
  /\ IsError(NthResult(calls[i], 2))

\* C19: get_proposal_details with includeLines = true, a successful primary
\* fetch and a failing lines fetch returns one text block, "PROPOSAL:" with
\* the proposal and "LINES:" with the error text of the lines call, and no
\* isError on the result.
C19_LinesErrorEmbedded ==
  \A i \in DOMAIN inv :
    C19_LinesFailed(i)
      => /\ inv[i].mr = 2
         /\ DOMAIN inv[i].result = {"content"}
         /\ Len(inv[i].result.content) = 1
         /\ inv[i].result.content[1]
              = [type |-> "text",
                 text |-> <<"PROPOSAL:", "\n">>
                          \o NthResult(calls[i], 1).content[1].text
                          \o <<"\n", "\n", "LINES:", "\n">>
                          \o NthResult(calls[i], 2).content[1].text]

\* The proposal was fetched, the lines call got an HTML page.
C19_Witness ==
  \E i \in DOMAIN inv :
    /\ C19_LinesFailed(i)
    /\ Len(calls[i]) = 2
    /\ calls[i][1].status = 200 /\ calls[i][2].outcome = "unparseable"
    /\ Contains(inv[i].result.content[1].text,
                <<"LINES:", "\n", "Network Error: ">>)
    /\ ~IsError(inv[i].result)

ListTools ==
  {"list_clients", "list_contacts", "list_proposals", "list_estimates",
   "list_action_items", "list_project_schedules"}

\* The values the query of url has under key, in order.
ValuesUnder(url, key) ==
  LET parts == Split(QueryOf(url), "&", <<>>, <<>>)
      under == SelectSeq(parts, LAMBDA p : Len(p) >= 2 /\ p[1] = key /\ p[2] = "=")
  IN [n \in 1..Len(under) |-> SubSeq(under[n], 3, Len(under[n]))]

\* The number a list tool sends for an argument: the caller's when it is
\* supplied and not zero, else the default d.
SuppliedOr(arg, d) == IF arg \in {Undefined, Num(0)} THEN d ELSE arg.n

C13_SameUrls ==
  \A i \in DOMAIN inv : \A j \in DOMAIN inv \ {i} :
    (inv[i].tool \in GetTools /\ inv[j].tool = inv[i].tool
     /\ inv[j].args = inv[i].args)
      => /\ inv[i].mr >= 1 /\ inv[j].mr >= 1
         /\ BaseParses => (Len(calls[i]) >= 1 /\ Len(calls[j]) >= 1)
         /\ \A n \in CallsBy(i) \cap CallsBy(j) :
              /\ calls[i][n].url = calls[j][n].url
              /\ calls[i][n].options.method = "GET"
              /\ calls[j][n].options = calls[i][n].options

\* list_clients({}) failed with a 404; a second list_clients({}) went out
\* to the same URL and was answered.
C13_Witness ==
  \E i \in DOMAIN inv : \E j \in DOMAIN inv \ {i} :
    /\ inv[i].tool = "list_clients" /\ inv[j].tool = "list_clients"
    /\ inv[i].args = inv[j].args
    /\ inv[i].pc = "done" /\ IsError(inv[i].result)
    /\ inv[j].pc = "done" /\ ~IsError(inv[j].result)
    /\ Len(calls[i]) = 1 /\ Len(calls[j]) = 1
    /\ calls[i][1].url = calls[j][1].url
    /\ calls[i][1].status = 404 /\ calls[j][1].status = 200

\* The request of the n-th makeRequest of a handler, from its arguments.
OwnRequest(tool, a, n) ==
  IF n = 1 THEN FirstRequest(tool, a)
  ELSE IF tool = "get_proposal_details" THEN LinesRequest(a)
  ELSE VarianceRequest(a)

\* The result of invocation i as its handler makes it of its own arguments
\* and of what came back to its own calls.
OwnResult(i) ==
  LET cs == calls[i]
      one == NthResult(cs, 1)
      two == NthResult(cs, 2)
  IN CASE inv[i].tool = "get_project_finances" ->
            [content |-> <<[type |-> "text",
                            text |-> <<"JOB BALANCES:", "\n">> \o one.content[1].text
                                     \o <<"\n", "\n", "COST VARIANCE:", "\n">>
                                     \o two.content[1].text]>>]
       [] inv[i].tool = "get_proposal_details"
          /\ Truthy(inv[i].args.includeLines) /\ ~IsError(one) ->
            [content |-> <<[type |-> "text",
                            text |-> <<"PROPOSAL:", "\n">> \o one.content[1].text
                                     \o <<"\n", "\n", "LINES:", "\n">>
                                     \o two.content[1].text]>>]
       [] OTHER -> one

\* Every call of invocation i is the request of its own arguments, and its
\* results are those of its own calls.
OwnCallsOnly(i) ==
  /\ \A n \in CallsBy(i) :
       LET req == OwnRequest(inv[i].tool, inv[i].args, n)
       IN /\ calls[i][n].url
               = UrlToString(BuildUrl(config.JOEAPI_BASE_URL, req.endpoint, req.params))
          /\ calls[i][n].options = RequestOptions(req.method, req.data)
  /\ inv[i].mr = 2 => inv[i].first = NthResult(calls[i], 1)
  /\ inv[i].pc = "done" => inv[i].result = OwnResult(i)

\* A step of one invocation leaves every other invocation as it was.
TouchesOneInvocation ==
  \A i \in DOMAIN inv : \A j \in DOMAIN inv \ {i} :
    (inv'[i] # inv[i] \/ calls'[i] # calls[i])
      => (inv'[j] = inv[j] /\ calls'[j] = calls[j])

\* C17: with several invocations in flight and their calls resolving in any
\* order, each invocation's calls and result come of its own arguments and
\* of the responses to its own calls; no step of one invocation changes
\* anything of another, and the configuration createServer captured never
\* changes.
C17_NoSharedState ==
  /\ [](\A i \in DOMAIN inv : OwnCallsOnly(i))
  /\ [][TouchesOneInvocation /\ config' = config]_vars

\* Two get_project_finances are on their second call at once, the first
\* call of the one rejected and that of the other answered.
C17_Witness ==
  \E i \in DOMAIN inv : \E j \in DOMAIN inv \ {i} :
    /\ inv[i].tool = "get_project_finances" /\ inv[j].tool = "get_project_finances"
    /\ inv[i].pc = "json" /\ inv[j].pc = "fetch"
    /\ Len(calls[i]) = 2 /\ Len(calls[j]) = 2
    /\ calls[i][1].outcome = "rejected" /\ calls[j][1].status = 200
    /\ IsError(inv[i].first) /\ ~IsError(inv[j].first)

(***************************************************************************)
(* Properties of termination.                                              *)
(***************************************************************************)
\* The errors the upstream and the network raise.
UpstreamErrors ==
  AllFetchErrors \cup {UnexpectedToken, UnexpectedEnd, Terminated}

\* What ends a call of invocation i comes from the upstream: a response, or
\* one of its errors; the core ends none itself.
SettledByUpstream(i) ==
  \A k \in CallsBy(i) :
    /\ calls[i][k].outcome \in {"pending", "response", "parsed"}
         => calls[i][k].error = NoError
    /\ calls[i][k].outcome \in {"rejected", "unparseable", "aborted"}
         => calls[i][k].error \in UpstreamErrors

\* An invocation leaves an await only in a step that settles the call it
\* awaits.
LeavesAwaitOnSettle ==
  \A i \in DOMAIN inv :
    (inv[i].pc \in {"fetch", "json"} /\ inv'[i] # inv[i])
      => calls'[i][inv[i].call].outcome # calls[i][inv[i].call].outcome

\* C18: every tool invocation returns a result in the end, provided each
\* call it issues is resolved or rejected in the end; the core never ends
\* an issued call itself, so with REQUEST_TIMEOUT set as with it unset an
\* invocation waits for its call, and its result is the one its arguments
\* and the responses give.
C18_EventuallyReturns ==
  /\ (\E i \in DOMAIN inv : inv[i].pc # "idle")
       ~> (\A i \in DOMAIN inv : inv[i].pc = "done")
  /\ [](\A i \in DOMAIN inv :
          /\ SettledByUpstream(i)
          /\ inv[i].pc = "done" => inv[i].result = OwnResult(i))
  /\ [][LeavesAwaitOnSettle]_vars

\* With REQUEST_TIMEOUT = 1000, get_project_finances returned after both of
\* its calls were answered.
C18_Witness ==
  \E i \in DOMAIN inv :
    /\ config.REQUEST_TIMEOUT = Num(1000)
    /\ TIMEOUT = Num(1000)
    /\ inv[i].tool = "get_project_finances" /\ inv[i].pc = "done"
    /\ Len(calls[i]) = 2
    /\ \A k \in CallsBy(i) : calls[i][k].outcome = "parsed"

=============================================================================
